---- MODULE Spec2Model ----
(***************************************************************************)
(* Model of the status-polling engine of ts-monitor-ai-tools: the poll of  *)
(* one target with retries and backoff (checkToolStatus), the sweep over   *)
(* all targets (checkAllToolsStatus), the startup sweep and the recurring  *)
(* timer, and the in-memory status store (tools); and of the simulator of  *)
(* src/src/server.ts, whose store randomizeStatuses redraws.               *)
(*                                                                         *)
(* Time is in milliseconds.  Node runs one callback at a time, so every    *)
(* action is the code that runs between two awaits; the pending callback   *)
(* with the earliest due time runs next.                                   *)
(***************************************************************************)
EXTENDS Integers, Sequences, FiniteSets, TLC

\* Number of sweeps (startup sweep included) the timer may start in a run.
MaxSweeps == 2
\* Number of telemetry calls that may throw in a run.
MaxThrows == 1

CHECK_DELAY_MS == 2000
CHECK_INTERVAL_MS == 5 * 60 * 1000
REQUEST_TIMEOUT_MS == 10000
MAX_RETRIES == 2

\* latencyMs: number | null.  Latencies are >= 0, so null is encoded as -1.
Null == -1
\* error?: string.  An absent (undefined) value, distinct from every string.
Undefined == "<undefined>"

toolConfigs ==
  << [id |-> "chatgpt", name |-> "ChatGPT"],
     [id |-> "claude", name |-> "Claude"],
     [id |-> "cursor", name |-> "Cursor"] >>

\* JavaScript truthiness of an optional string.
Truthy(v) == v # Undefined /\ v # ""

\* a || b on optional strings.
OrElse(a, b) == IF Truthy(a) THEN a ELSE b

\* String.prototype.includes
Includes(s, sub) ==
  \E k \in 1..(Len(s) - Len(sub) + 1) : SubSeq(s, k, k + Len(sub) - 1) = sub

Min(S) == CHOOSE x \in S : \A y \in S : x <= y

(***************************************************************************)
(* What the remote endpoint does with one request.                         *)
(*   kind "response": headers arrive after `elapsed` ms with `status`;     *)
(*                    the body is described by `body`.                     *)
(*   kind "error":    fetch rejects after `elapsed` ms with `message`.     *)
(*   kind "hang":     nothing ever arrives.                                *)
(* body.kind "json":    the body parses; isNull: it is the JSON value      *)
(*                      null; hasStatus: it has a `status` member with the *)
(*                      given indicator and description (or Undefined).    *)
(* body.kind "invalid": response.json() rejects.                           *)
(* body.kind "never":   the body never ends; body.ms is the time the body  *)
(*                      takes otherwise.                                   *)
(***************************************************************************)
NoBody ==
  [kind |-> "invalid", isNull |-> FALSE, hasStatus |-> FALSE,
   indicator |-> Undefined, description |-> Undefined, ms |-> 0]

JsonBody(ind, desc, ms) ==
  [kind |-> "json", isNull |-> FALSE, hasStatus |-> TRUE,
   indicator |-> ind, description |-> desc, ms |-> ms]

NullBody == [NoBody EXCEPT !.kind = "json", !.isNull = TRUE]
EmptyObjectBody == [NoBody EXCEPT !.kind = "json"]
NeverBody == [NoBody EXCEPT !.kind = "never"]

Response(status, elapsed, body) ==
  [kind |-> "response", status |-> status, elapsed |-> elapsed,
   body |-> body, message |-> ""]

Failure(message, elapsed) ==
  [kind |-> "error", status |-> 0, elapsed |-> elapsed,
   body |-> NoBody, message |-> message]

Hang == [kind |-> "hang", status |-> 0, elapsed |-> 0, body |-> NoBody, message |-> ""]

AbortMessage == "This operation was aborted"

Indicators == {"none", "minor", "partial", "major", "critical", "maintenance", Undefined}
Descriptions == {Undefined, "", "Partial outage"}
Elapsed == {500, 2000, 2500}

Bodies ==
  {NoBody, NullBody, EmptyObjectBody}
    \cup {JsonBody(ind, desc, 0) : ind \in Indicators, desc \in Descriptions}

Messages ==
  {AbortMessage, "network timeout at: https://status.openai.com",
   "connect ECONNREFUSED 127.0.0.1:443", "getaddrinfo ENOTFOUND status.cursor.com",
   "fetch failed", "Rate limited by upstream proxy", "proxy answered 429",
   "timeout after 429", ""}

\* Every behaviour of the endpoint the isolated poll is checked against.
PollEnv ==
  {Response(st, el, b) : st \in {200, 204}, el \in Elapsed, b \in Bodies}
    \cup {Response(200, 500, NeverBody), Response(200, 12000, EmptyObjectBody), Hang}
    \cup {Response(st, el, NoBody) : st \in {304, 404, 429, 500, 503}, el \in Elapsed}
    \cup {Failure(m, 100) : m \in Messages}

(***************************************************************************)
(* checkToolStatus                                                         *)
(***************************************************************************)

\* fetch(url, {signal}) with the abort timer of REQUEST_TIMEOUT_MS: what the
\* await of fetch delivers, and when.
Fetch(env) ==
  IF env.kind = "hang" \/ env.elapsed >= REQUEST_TIMEOUT_MS
    THEN Failure(AbortMessage, REQUEST_TIMEOUT_MS)
    ELSE env

\* response.ok
Ok(status) == status \in 200..299

Outcome(status, latencyMs, error) ==
  [status |-> status, latencyMs |-> latencyMs, error |-> error]

\* The degraded-by-latency rule of the `none` and the unrecognised branch.
ByLatency(latencyMs) ==
  Outcome(IF latencyMs > 2000 THEN "degraded" ELSE "healthy", latencyMs, Undefined)

\* Faulty variant of ParseFailure: the latency of the response is dropped.
ParseFailureNoLatency(latencyMs) ==
  Outcome("unknown", Null, "Failed to parse status API response")

\* The body of the inner try: data.status?.indicator and the branches on it.
\* data = null makes data.status throw, which the inner catch turns into
\* the parse-failure outcome.
ParseFailure(latencyMs) ==
  Outcome("unknown", latencyMs, "Failed to parse status API response")

ClassifyBody(body, latencyMs) ==
  IF body.kind # "json" \/ body.isNull THEN ParseFailure(latencyMs)
  ELSE
    LET indicator == IF body.hasStatus THEN body.indicator ELSE Undefined
        description ==
          OrElse(IF body.hasStatus THEN body.description ELSE Undefined, "")
    IN  IF indicator = "none" THEN ByLatency(latencyMs)
        ELSE IF indicator = "minor"
          THEN Outcome("degraded", latencyMs, OrElse(description, "Minor service outage"))
        ELSE IF indicator = "major" \/ indicator = "critical"
          THEN Outcome("down", latencyMs,
                       OrElse(description, "Service status: " \o indicator))
        ELSE IF indicator = "partial"
          THEN Outcome("degraded", latencyMs, OrElse(description, "Partial outage detected"))
        ELSE ByLatency(latencyMs)

\* Faulty variant of ClassifyHttp: 429 is not told apart from the other statuses.
ClassifyHttpNo429(status, latencyMs) ==
  IF status >= 500
    THEN Outcome("down", latencyMs, "Server error: " \o ToString(status))
    ELSE Outcome("down", latencyMs, "HTTP " \o ToString(status))

\* The branches for a response that is not ok.
ClassifyHttp(status, latencyMs) ==
  IF status = 429
    THEN Outcome("degraded", latencyMs, "Rate limited - too many requests")
  ELSE IF status >= 500
    THEN Outcome("down", latencyMs, "Server error: " \o ToString(status))
  ELSE Outcome("down", latencyMs, "HTTP " \o ToString(status))

\* lastError of the outer catch.
ClassifyError(errorMessage) ==
  IF Includes(errorMessage, "aborted") \/ Includes(errorMessage, "timeout")
    THEN "Request timeout"
  ELSE IF Includes(errorMessage, "ECONNREFUSED") \/ Includes(errorMessage, "ENOTFOUND")
    THEN "Connection failed"
  ELSE errorMessage

\* Faulty variants of ShouldRetry: one retry too many, one too few.
RetryOnceMore(retryCount) == retryCount <= MAX_RETRIES
RetryOnceLess(retryCount) == retryCount < MAX_RETRIES - 1

\* if (retryCount < MAX_RETRIES)
ShouldRetry(retryCount) == retryCount < MAX_RETRIES

\* Faulty variant of BackoffMs: the same delay before every retry.
FixedBackoffMs(retryCount) == 1000

\* delay(1000 * (retryCount + 1))
BackoffMs(retryCount) == 1000 * (retryCount + 1)

\* Faulty variant of Exhausted: the rate-limit test is left out.
ExhaustedAlwaysDown(lastError) == [status |-> "down", latencyMs |-> Null, error |-> lastError]

\* The outcome once the retries are used up.
Exhausted(lastError) ==
  IF Includes(lastError, "Rate limited") \/ Includes(lastError, "429")
    THEN Outcome("degraded", Null, lastError)
    ELSE Outcome("down", Null, lastError)

NoOutcome == Outcome("none", Null, Undefined)

(***************************************************************************)
(* One activation of checkToolStatus and its recursive retries.            *)
(*   pc         "fetch"   awaiting fetch                                   *)
(*              "body"    awaiting response.json()                         *)
(*              "backoff" awaiting delay(...) before the retry             *)
(*   pending    what the awaited fetch will deliver (Fetch(env))           *)
(*   due        the time the awaited promise settles                       *)
(*   trace      the attempts and delays of this poll so far, in order      *)
(***************************************************************************)
\* what: "attempt" (ms = its retryCount), "response" (ms = the HTTP status),
\* "failure" (ms = the retryCount of the failed attempt), "delay" (ms = its length);
\* at: the time of the event.
Ev(what, ms, at) == [what |-> what, ms |-> ms, at |-> at]

\* Entry of checkToolStatus(config, retryCount) at time t, up to await fetch.
BeginAttempt(config, retryCount, t, env, trace) ==
  [config |-> config, retryCount |-> retryCount, startTime |-> t, pc |-> "fetch",
   pending |-> Fetch(env), latencyMs |-> Null, due |-> t + Fetch(env).elapsed,
   trace |-> Append(trace, Ev("attempt", retryCount, t))]

\* The code that runs when fetch settles at time t.  next = "return": the poll
\* has returned `result`; otherwise `poll` is the activation at its next await.
AfterFetch(p, t) ==
  IF p.pending.kind = "response"
    THEN LET latencyMs == t - p.startTime
             tr == Append(p.trace, Ev("response", p.pending.status, t))
         IN  IF Ok(p.pending.status)
               THEN [next |-> "await", result |-> NoOutcome,
                     poll |-> [p EXCEPT !.pc = "body", !.latencyMs = latencyMs,
                                        !.due = t + p.pending.body.ms, !.trace = tr]]
               ELSE [next |-> "return",
                     result |-> ClassifyHttp(p.pending.status, latencyMs),
                     poll |-> [p EXCEPT !.pc = "returned", !.latencyMs = latencyMs,
                                        !.trace = tr]]
    ELSE LET lastError == ClassifyError(p.pending.message)
             tr == Append(p.trace, Ev("failure", p.retryCount, t))
         IN  IF ShouldRetry(p.retryCount)
               THEN [next |-> "await", result |-> NoOutcome,
                     poll |-> [p EXCEPT !.pc = "backoff",
                                        !.due = t + BackoffMs(p.retryCount),
                                        !.trace = Append(tr, Ev("delay", BackoffMs(p.retryCount), t))]]
               ELSE [next |-> "return", result |-> Exhausted(lastError),
                     poll |-> [p EXCEPT !.pc = "returned", !.trace = tr]]

\* The code that runs when response.json() settles.
AfterBody(p) ==
  [next |-> "return", result |-> ClassifyBody(p.pending.body, p.latencyMs),
   poll |-> [p EXCEPT !.pc = "returned"]]

\* return checkToolStatus(config, retryCount + 1), when the delay is over.
AfterBackoff(p, t, env) ==
  BeginAttempt(p.config, p.retryCount + 1, t, env, p.trace)

\* Whether the awaited promise of the activation ever settles.
Settles(p) ==
  \/ p.pc \in {"fetch", "backoff"}
  \/ p.pc = "body" /\ p.pending.body.kind # "never"

IdlePoll ==
  [config |-> toolConfigs[1], retryCount |-> 0, startTime |-> 0, pc |-> "idle",
   pending |-> Hang, latencyMs |-> Null, due |-> 0, trace |-> << >>]

(***************************************************************************)
(* The status store and checkAllToolsStatus                                *)
(***************************************************************************)

\* A ToolStatus record.  lastChecked (the wall-clock time of the write) is
\* left out: nothing reads it.
ToolStatus(config, status, latencyMs, error) ==
  [id |-> config.id, name |-> config.name, status |-> status,
   latencyMs |-> latencyMs, error |-> error]

\* let tools = toolConfigs.map(...)
InitialTools ==
  [k \in 1..Len(toolConfigs) |-> ToolStatus(toolConfigs[k], "unknown", Null, Undefined)]

\* tools.findIndex((t) => t.id === id), 1-based; 0 when there is none.
FindIndex(T, id) ==
  IF \E k \in DOMAIN T : T[k].id = id
    THEN Min({k \in DOMAIN T : T[k].id = id})
    ELSE 0

\* The value of tools.find(...) when there is no such record.
NoTool == [id |-> Undefined, name |-> Undefined, status |-> Undefined,
           latencyMs |-> Null, error |-> Undefined]

\* tools.find((t) => t.id === id)
Find(T, id) == IF FindIndex(T, id) = 0 THEN NoTool ELSE T[FindIndex(T, id)]

\* Faulty variant of Put: the record is pushed without looking for the index.
PutAlwaysPush(T, updatedTool) == Append(T, updatedTool)

\* tools[toolIndex] = updatedTool, or tools.push(updatedTool)
Put(T, updatedTool) ==
  IF FindIndex(T, updatedTool.id) > 0
    THEN [T EXCEPT ![FindIndex(T, updatedTool.id)] = updatedTool]
    ELSE Append(T, updatedTool)

\* Faulty variant of CatchUpdate: the catch block keeps the stored verdict.
CatchKeepsVerdict(T, id, message) ==
  IF FindIndex(T, id) > 0
    THEN [T EXCEPT ![FindIndex(T, id)] = [@ EXCEPT !.error = message]]
    ELSE T

\* Faulty variant of CatchUpdate: the catch block only logs.
CatchLogsOnly(T, id, message) == T

\* The store update of the catch block of checkAllToolsStatus.
CatchUpdate(T, id, message) ==
  IF FindIndex(T, id) > 0
    THEN [T EXCEPT ![FindIndex(T, id)] = [@ EXCEPT !.status = "unknown", !.error = message]]
    ELSE T

\* error instanceof Error ? error.message : 'Unknown error'
CatchMessage(thrown) == IF thrown.isError THEN thrown.message ELSE "Unknown error"

\* What a telemetry call throws when it throws: the New Relic calls an Error,
\* console.error a value that is no Error.
ThrownBy(fn) ==
  IF fn = "console.error"
    THEN [isError |-> FALSE, message |-> ""]
    ELSE [isError |-> TRUE, message |-> "telemetry unavailable"]
NotThrown == [isError |-> FALSE, message |-> Undefined]

\* existingTool?.status || 'unknown'
OldStatus(existingTool) == OrElse(existingTool.status, "unknown")

\* latencyMs ?? 0
OrZero(latencyMs) == IF latencyMs = Null THEN 0 ELSE latencyMs

Event(fn, tool, previousStatus) ==
  [fn |-> fn, toolId |-> tool.id, status |-> tool.status,
   previousStatus |-> previousStatus, latencyMs |-> OrZero(tool.latencyMs),
   error |-> tool.error]

\* The level of the log line a call writes: checkAllToolsStatus logs with
\* console.error only; recordCustomEvent and noticeError write no log line.
Level(fn) ==
  IF fn \in {"console.error", "console.error(caught)"} THEN "error" ELSE Undefined

\* if (result.status === 'down' || result.error)
LogsError(result) == result.status = "down" \/ Truthy(result.error)

\* if (result.status === 'down'), inside the former
ReportsDown(result) == result.status = "down"

\* The telemetry calls of the try block for one result, in program order:
\* recordCustomEvent, then console.error and noticeError under their guards.
TelemetryCalls(updatedTool, result, oldStatus) ==
  << Event("recordCustomEvent", updatedTool, Undefined) >>
    \o (IF LogsError(result)
          THEN << Event("console.error", updatedTool, Undefined) >>
                 \o (IF ReportsDown(result)
                       THEN << Event("noticeError", updatedTool, oldStatus) >>
                       ELSE << >>)
          ELSE << >>)

\* Faulty variant of StartTarget: the targets are taken from the end of
\* toolConfigs.
StartTargetReversed(sw, i, t, T, env) ==
  [sw EXCEPT !.pc = "poll", !.i = i,
             !.existingTool = Find(T, toolConfigs[Len(toolConfigs) + 1 - i].id),
             !.poll = BeginAttempt(toolConfigs[Len(toolConfigs) + 1 - i], 0, t, env, << >>)]

\* Entry of the loop body for target i at time t: existingTool is looked up
\* and checkToolStatus(config) runs up to its first await.
StartTarget(sw, i, t, T, env) ==
  [sw EXCEPT !.pc = "poll", !.i = i,
             !.existingTool = Find(T, toolConfigs[i].id),
             !.poll = BeginAttempt(toolConfigs[i], 0, t, env, << >>)]

\* for (...; i < toolConfigs.length; i++): the loop goes on to target i + 1
\* or the sweep ends.
NextTarget(sw, t, T, env) ==
  IF sw.i < Len(toolConfigs)
    THEN StartTarget(sw, sw.i + 1, t, T, env)
    ELSE [sw EXCEPT !.pc = "done", !.poll = IdlePoll, !.existingTool = NoTool]

\* if (i < toolConfigs.length - 1) await delay(CHECK_DELAY_MS), in 1-based i.
Paces(i) == i < Len(toolConfigs)

\* The rest of the loop body once checkToolStatus has resolved with `result`
\* at time t: the store update, the telemetry calls (the k-th of which throws
\* `thrown` when k > 0), then the pacing delay, or the catch block (its
\* console.error and its store update) and the next iteration.  `env` is what the next target's endpoint does if its poll
\* starts in this same step.
Process(sw, id, result, t, T, k, thrown, env) ==
  LET config == toolConfigs[sw.i]
      oldStatus == OldStatus(sw.existingTool)
      updatedTool == ToolStatus(config, result.status, result.latencyMs, result.error)
      stored == Put(T, updatedTool)
      calls == TelemetryCalls(updatedTool, result, oldStatus)
      made == IF k = 0 THEN calls
              ELSE Append(SubSeq(calls, 1, k - 1),
                          Event("console.error(caught)", Find(stored, config.id), Undefined))
      caught == CatchUpdate(stored, config.id, CatchMessage(thrown))
      final == IF k = 0 THEN stored ELSE caught
      summary == [sweep |-> id, i |-> sw.i, oldStatus |-> oldStatus,
                  before |-> Find(T, config.id).status,
                  result |-> result, terminal |-> sw.poll.pending,
                  attempts |-> sw.poll.retryCount + 1,
                  emitted |-> made, threw |-> k > 0,
                  written |-> Find(final, config.id),
                  writes |-> IF k > 0 /\ FindIndex(stored, config.id) > 0
                               THEN << updatedTool, Find(caught, config.id) >>
                               ELSE << updatedTool >>]
      sw1 == [sw EXCEPT !.polled = Append(@, [threw |-> k > 0, result |-> result,
                                               written |-> Find(final, config.id)])]
  IN  [tools |-> final,
       last |-> summary,
       sweep |-> IF k = 0 /\ Paces(sw.i)
                   THEN [sw1 EXCEPT !.pc = "pacing", !.due = t + CHECK_DELAY_MS,
                                    !.poll = IdlePoll, !.existingTool = NoTool]
                   ELSE NextTarget(sw1, t, final, env)]

IdleSweep ==
  [pc |-> "idle", i |-> 0, existingTool |-> NoTool, poll |-> IdlePoll, due |-> 0,
   polled |-> << >>, overlapped |-> FALSE]

NoSummary ==
  [sweep |-> 0, i |-> 0, oldStatus |-> Undefined, before |-> Undefined,
   result |-> NoOutcome, terminal |-> Hang, attempts |-> 0, emitted |-> << >>,
   threw |-> FALSE, written |-> NoTool, writes |-> << >>]

\* What each endpoint does during the sweeps: the first answers, or sends
\* its headers and then a body that takes longer than the sweep period or
\* never ends; the second answers, answers slowly or rate-limits; the third
\* answers, fails with a server error or does not answer at all.
Operational(elapsed, ms) ==
  Response(200, elapsed, JsonBody("none", "All Systems Operational", ms))

EnvOf(i) ==
  CASE i = 1 -> {Operational(500, 0),
                 Response(200, 500, JsonBody("critical", "Partial outage", 400000)),
                 Response(200, 500, NeverBody)}
    [] i = 2 -> {Operational(500, 0), Operational(2500, 0), Response(429, 500, NoBody)}
    [] OTHER -> {Operational(500, 0), Response(503, 500, NoBody), Hang}

\* The endpoint of the target after target i, if there is one.
EnvAfter(i) == EnvOf(IF i < Len(toolConfigs) THEN i + 1 ELSE i)

(***************************************************************************)
(* The query surface: GET /health, GET /tools, GET /tools/:id              *)
(***************************************************************************)

\* What a handler sends: res.json(body) or res.status(n).json(body).  `id` is
\* req.params.id, `records` the ToolStatus records of the body.
Reply(route, id, status, error, records) ==
  [route |-> route, id |-> id, status |-> status, error |-> error, tools |-> records]

NoReply == Reply(Undefined, Undefined, 0, Undefined, << >>)

\* The error handling middleware: a handler that throws is answered with 500.
ServerError(route, id) == Reply(route, id, 500, "Internal server error", << >>)

\* The values of req.params.id the handler is given: the ids of toolConfigs
\* and two that are none of them.
RequestIds == {toolConfigs[k].id : k \in DOMAIN toolConfigs} \cup {"gemini", "Claude"}

\* Faulty variant of ToolById: the test of !tool is left out.
ToolByIdUnchecked(T, id) == Reply("/tools/:id", id, 200, Undefined, << Find(T, id) >>)

\* app.get('/tools/:id'): tools.find, then 404 or the record.
ToolById(T, id) ==
  IF Find(T, id) = NoTool
    THEN Reply("/tools/:id", id, 404, "Tool not found", << >>)
    ELSE Reply("/tools/:id", id, 200, Undefined, << Find(T, id) >>)

(***************************************************************************)
(* The simulator (src/src/server.ts): a store of five tools whose statuses *)
(* randomizeStatuses redraws every 60 s.                                   *)
(***************************************************************************)

\* let tools: ToolStatus[] of the simulator, lastChecked left out.
SimInitialTools ==
  << [id |-> "cursor", name |-> "Cursor", status |-> "healthy",
      latencyMs |-> 120, error |-> Undefined],
     [id |-> "coderabbit", name |-> "CodeRabbit", status |-> "degraded",
      latencyMs |-> 450, error |-> "Slow responses from API"],
     [id |-> "chatgpt", name |-> "ChatGPT", status |-> "healthy",
      latencyMs |-> 200, error |-> Undefined],
     [id |-> "claude", name |-> "Claude", status |-> "healthy",
      latencyMs |-> 180, error |-> Undefined],
     [id |-> "copilot", name |-> "GitHub Copilot", status |-> "unknown",
      latencyMs |-> Null, error |-> Undefined] >>

statuses == << "healthy", "degraded", "down" >>

\* Math.random(), in thousandths: a value of [0, 1).  A draw is the pair of
\* values the two calls for one tool return.
Draws == {<< 0, 0 >>, << 334, 999 >>, << 999, 500 >>}

\* statuses[Math.floor(Math.random() * statuses.length)] ?? 'unknown'
DrawnStatus(r) ==
  LET k == (r * Len(statuses)) \div 1000
  IN  IF k + 1 \in DOMAIN statuses THEN statuses[k + 1] ELSE "unknown"

\* status === 'down' ? null : Math.floor(100 + Math.random() * (...))
DrawnLatency(status, r) ==
  IF status = "down" THEN Null
  ELSE (100 * 1000 + r * (IF status = "degraded" THEN 800 ELSE 300)) \div 1000

\* updatedTool
UpdatedTool(t, status, latency) ==
  [t EXCEPT !.status = status, !.latencyMs = latency,
            !.error = IF status = "down" THEN "No response from service"
                      ELSE IF status = "degraded" THEN "Elevated latency"
                      ELSE Undefined]

\* Faulty variant of StatusChanged: every redraw counts as a change.
StatusChangedAlways(t, status) == TRUE

\* t.status !== status
StatusChanged(t, status) == t.status # status

\* A call of the simulator to New Relic or to the console.
SimCall(fn, updatedTool) ==
  [fn |-> fn, toolId |-> updatedTool.id, status |-> updatedTool.status]

\* The calls the callback of map makes for tool t, in order.
SimCalls(t, updatedTool) ==
  << SimCall("recordCustomEvent", updatedTool) >>
    \o (IF StatusChanged(t, updatedTool.status)
          THEN << SimCall(IF updatedTool.status = "down" THEN "console.error"
                          ELSE IF updatedTool.status = "degraded" THEN "console.warn"
                          ELSE "console.log", updatedTool) >>
                 \o (IF updatedTool.status = "down"
                       THEN << SimCall("noticeError", updatedTool) >>
                       ELSE << >>)
          ELSE << >>)

\* tools.map(callback) from T to U: the calls each run of the callback makes,
\* in the order of the array.
CallsOfMap(T, U) == [k \in DOMAIN T |-> SimCalls(T[k], U[k])]

VARIABLES
  now,        \* Date.now()
  tools,      \* the status store
  sweeps,     \* the activations of checkAllToolsStatus, by order of start
  started,    \* how many sweeps have started
  nextFire,   \* when the setInterval timer fires next
  last,       \* the loop body run in the latest step: what it read and did
  throws,     \* how many telemetry calls have thrown
  call,       \* an activation of checkToolStatus called on its own
  returned,   \* what that call resolved to (NoOutcome until it has)
  res,        \* the response of the GET request handled in the latest step
  simTools,   \* the status store of the simulator
  simLog      \* the calls made by the latest run of randomizeStatuses

vars ==
  << now, tools, sweeps, started, nextFire, last, throws, call, returned, res,
     simTools, simLog >>

simVars == << simTools, simLog >>

sweepVars == << tools, sweeps, started, nextFire, last, throws, res >>

Sweeps == 1..MaxSweeps

Active(s) == sweeps[s].pc \in {"poll", "pacing"}

\* Whether the promise sweep s awaits ever settles, and when.
Runnable(s) ==
  \/ sweeps[s].pc = "pacing"
  \/ sweeps[s].pc = "poll" /\ Settles(sweeps[s].poll)

Due(s) == IF sweeps[s].pc = "pacing" THEN sweeps[s].due ELSE sweeps[s].poll.due

TimerArmed == started < MaxSweeps

\* The time sweep s starts: the first at module load, the others when the
\* interval timer fires.
StartedAt(s) == (s - 1) * CHECK_INTERVAL_MS

DueTimes ==
  {Due(s) : s \in {x \in Sweeps : Runnable(x)}}
    \cup (IF TimerArmed THEN {nextFire} ELSE {})

\* The event loop runs the callback that is due first.
Earliest(t) == DueTimes # {} /\ t = Min(DueTimes)

\* Module load: the store is built, checkAllToolsStatus() runs up to its first
\* await and setInterval arms the timer.
Init ==
  /\ now = 0
  /\ tools = InitialTools
  /\ \E env \in EnvOf(1) :
       sweeps = [s \in Sweeps |->
                   IF s = 1 THEN StartTarget(IdleSweep, 1, 0, InitialTools, env)
                   ELSE IdleSweep]
  /\ started = 1
  /\ nextFire = CHECK_INTERVAL_MS
  /\ last = NoSummary
  /\ throws = 0
  /\ call = IdlePoll
  /\ returned = NoOutcome
  /\ res = NoReply
  /\ simTools = SimInitialTools
  /\ simLog = << >>

\* The poll of sweep s resolved with `result`: the loop body goes on.  None
\* of its telemetry calls throws (k = 0), or the k-th does.
Resolve(s, result, t) ==
  LET calls == TelemetryCalls(ToolStatus(toolConfigs[sweeps[s].i], result.status,
                                         result.latencyMs, result.error),
                              result, OldStatus(sweeps[s].existingTool))
  IN  \E env \in EnvAfter(sweeps[s].i), k \in 0..Len(calls) :
        /\ k > 0 => throws < MaxThrows
        /\ throws' = IF k > 0 THEN throws + 1 ELSE throws
        /\ LET r == Process(sweeps[s], s, result, t, tools, k,
                            IF k = 0 THEN NotThrown ELSE ThrownBy(calls[k].fn), env)
           IN  /\ tools' = r.tools
               /\ last' = r.last
               /\ sweeps' = [sweeps EXCEPT ![s] = r.sweep]

FetchSettled(s) ==
  /\ sweeps[s].pc = "poll" /\ sweeps[s].poll.pc = "fetch"
  /\ Earliest(Due(s))
  /\ now' = Due(s)
  /\ LET r == AfterFetch(sweeps[s].poll, Due(s))
     IN  IF r.next = "return"
           THEN Resolve(s, r.result, Due(s))
           ELSE /\ sweeps' = [sweeps EXCEPT ![s].poll = r.poll]
                /\ last' = NoSummary
                /\ UNCHANGED << tools, throws >>
  /\ res' = NoReply
  /\ UNCHANGED << started, nextFire, call, returned, simVars >>

BodySettled(s) ==
  /\ sweeps[s].pc = "poll" /\ sweeps[s].poll.pc = "body" /\ Settles(sweeps[s].poll)
  /\ Earliest(Due(s))
  /\ now' = Due(s)
  /\ Resolve(s, AfterBody(sweeps[s].poll).result, Due(s))
  /\ res' = NoReply
  /\ UNCHANGED << started, nextFire, call, returned, simVars >>

BackoffDone(s) ==
  /\ sweeps[s].pc = "poll" /\ sweeps[s].poll.pc = "backoff"
  /\ Earliest(Due(s))
  /\ now' = Due(s)
  /\ \E env \in EnvOf(sweeps[s].i) :
       sweeps' = [sweeps EXCEPT ![s].poll = AfterBackoff(sweeps[s].poll, Due(s), env)]
  /\ res' = NoReply
  /\ last' = NoSummary
  /\ UNCHANGED << tools, throws, started, nextFire, call, returned, simVars >>

\* The pacing delay is over: the loop goes on to the next target.
PacingDone(s) ==
  /\ sweeps[s].pc = "pacing"
  /\ Earliest(Due(s))
  /\ now' = Due(s)
  /\ \E env \in EnvAfter(sweeps[s].i) :
       sweeps' = [sweeps EXCEPT ![s] = NextTarget(sweeps[s], Due(s), tools, env)]
  /\ res' = NoReply
  /\ last' = NoSummary
  /\ UNCHANGED << tools, throws, started, nextFire, call, returned, simVars >>

\* The setInterval callback: checkAllToolsStatus() runs up to its first await.
\* The summaries kept of the loop bodies that have run are dropped here.
TimerFire ==
  /\ TimerArmed
  /\ Earliest(nextFire)
  /\ now' = nextFire
  /\ nextFire' = nextFire + CHECK_INTERVAL_MS
  /\ started' = started + 1
  /\ \E env \in EnvOf(1) :
       sweeps' = [s \in Sweeps |->
                    IF s = started + 1
                      THEN StartTarget([IdleSweep EXCEPT !.overlapped = \E x \in Sweeps : Active(x)],
                                       1, nextFire, tools, env)
                    ELSE IF sweeps[s].pc = "done"
                      THEN [sweeps[s] EXCEPT !.polled = << >>]
                    ELSE IF Active(s)
                      THEN [sweeps[s] EXCEPT !.overlapped = TRUE]
                    ELSE sweeps[s]]
  /\ last' = NoSummary
  /\ res' = NoReply
  /\ UNCHANGED << tools, throws, call, returned, simVars >>

\* app.get('/health'): recordCustomEvent, which may throw, then res.json.
GetHealth ==
  /\ \E threw \in BOOLEAN :
       res' = IF threw THEN ServerError("/health", Undefined)
              ELSE Reply("/health", Undefined, 200, Undefined, << >>)
  /\ UNCHANGED << now, tools, sweeps, started, nextFire, last, throws, call, returned, simVars >>

\* app.get('/tools'): the counts, recordMetric (which may throw), console.log,
\* then res.json({ tools }).
GetTools ==
  /\ \E threw \in BOOLEAN :
       res' = IF threw THEN ServerError("/tools", Undefined)
              ELSE Reply("/tools", Undefined, 200, Undefined, tools)
  /\ UNCHANGED << now, tools, sweeps, started, nextFire, last, throws, call, returned, simVars >>

\* app.get('/tools/:id')
GetToolById(id) ==
  /\ res' = ToolById(tools, id)
  /\ UNCHANGED << now, tools, sweeps, started, nextFire, last, throws, call, returned, simVars >>

Next ==
  \/ \E s \in Sweeps : FetchSettled(s)
  \/ \E s \in Sweeps : BodySettled(s)
  \/ \E s \in Sweeps : BackoffDone(s)
  \/ \E s \in Sweeps : PacingDone(s)
  \/ TimerFire

Spec == Init /\ [][Next]_vars

(***************************************************************************)
(* SpecApi: the sweeps and the timer with GET requests arriving between    *)
(* any two callbacks.  Every telemetry call of the sweeps returns.         *)
(***************************************************************************)
InitApi ==
  /\ now = 0
  /\ tools = InitialTools
  /\ \E env \in EnvOf(1) :
       sweeps = [s \in Sweeps |->
                   IF s = 1 THEN StartTarget(IdleSweep, 1, 0, InitialTools, env)
                   ELSE IdleSweep]
  /\ started = 1
  /\ nextFire = CHECK_INTERVAL_MS
  /\ last = NoSummary
  /\ throws = MaxThrows
  /\ call = IdlePoll
  /\ returned = NoOutcome
  /\ res = NoReply
  /\ simTools = SimInitialTools
  /\ simLog = << >>

NextApi ==
  \/ Next
  \/ GetHealth
  \/ GetTools
  \/ \E id \in RequestIds : GetToolById(id)

SpecApi == InitApi /\ [][NextApi]_vars

(***************************************************************************)
(* SpecPoll: checkToolStatus(config) called once, on its own, against      *)
(* every behaviour of the endpoint in PollEnv.                             *)
(***************************************************************************)
InitPoll ==
  /\ now = 0
  /\ tools = InitialTools
  /\ sweeps = [s \in Sweeps |-> IdleSweep]
  /\ started = 0
  /\ nextFire = CHECK_INTERVAL_MS
  /\ last = NoSummary
  /\ throws = 0
  /\ \E c \in 1..Len(toolConfigs), env \in PollEnv :
       call = BeginAttempt(toolConfigs[c], 0, 0, env, << >>)
  /\ returned = NoOutcome
  /\ res = NoReply
  /\ simTools = SimInitialTools
  /\ simLog = << >>

PollFetchSettled ==
  /\ call.pc = "fetch"
  /\ now' = call.due
  /\ LET r == AfterFetch(call, call.due)
     IN  /\ call' = r.poll
         /\ returned' = r.result
  /\ UNCHANGED << sweepVars, simVars >>

PollBodySettled ==
  /\ call.pc = "body" /\ Settles(call)
  /\ now' = call.due
  /\ LET r == AfterBody(call)
     IN  /\ call' = r.poll
         /\ returned' = r.result
  /\ UNCHANGED << sweepVars, simVars >>

PollBackoffDone ==
  /\ call.pc = "backoff"
  /\ now' = call.due
  /\ \E env \in PollEnv : call' = AfterBackoff(call, call.due, env)
  /\ UNCHANGED << returned, sweepVars, simVars >>

NextPoll == PollFetchSettled \/ PollBodySettled \/ PollBackoffDone

SpecPoll == InitPoll /\ [][NextPoll]_vars

(***************************************************************************)
(* The simulator on its own: the store and the 60 s timer.                 *)
(***************************************************************************)
InitSim ==
  /\ now = 0
  /\ tools = InitialTools
  /\ sweeps = [s \in Sweeps |-> IdleSweep]
  /\ started = 0
  /\ nextFire = CHECK_INTERVAL_MS
  /\ last = NoSummary
  /\ throws = 0
  /\ call = IdlePoll
  /\ returned = NoOutcome
  /\ res = NoReply
  /\ simTools = SimInitialTools
  /\ simLog = << >>

\* One run of randomizeStatuses: map draws a status and a latency for every
\* tool, makes the calls, and the result is assigned to tools.
randomizeStatuses ==
  /\ \E d \in [DOMAIN simTools -> Draws] :
       /\ simTools' =
             [k \in DOMAIN simTools |->
                UpdatedTool(simTools[k], DrawnStatus(d[k][1]),
                            DrawnLatency(DrawnStatus(d[k][1]), d[k][2]))]
       /\ simLog' = CallsOfMap(simTools, simTools')
  /\ UNCHANGED << now, tools, sweeps, started, nextFire, last, throws, call, returned, res >>

NextSim == randomizeStatuses

SpecSim == InitSim /\ [][NextSim]_vars

(***************************************************************************)
(* Properties of one poll                                                  *)
(***************************************************************************)
Verdicts == {"healthy", "degraded", "down", "unknown"}

Attempts(tr) == Cardinality({k \in DOMAIN tr : tr[k].what = "attempt"})

HasReturned == returned # NoOutcome

\* C1: one poll started with retryCount = 0 makes at most 3 attempts (at most
\* 2 retries) whatever the attempts deliver, and an attempt that ends without
\* a retry being due ends the poll with an outcome.
C1_AtMostThreeAttempts ==
  /\ Attempts(call.trace) <= 3
  /\ call.retryCount <= 2
  /\ Attempts(call.trace) = call.retryCount + 1
  /\ call.pc = "backoff" => Attempts(call.trace) <= 2
  /\ call.pc = "returned" <=> HasReturned
  /\ HasReturned => returned.status \in Verdicts
  /\ (call.trace[Len(call.trace)].what = "failure") => HasReturned

C1_Witness ==
  /\ HasReturned
  /\ Attempts(call.trace) = 3
  /\ call.trace[Len(call.trace)].what = "failure"

\* C2: an attempt that ended with an HTTP response (any status, a body that
\* does not parse included) is the last attempt of its poll; an attempt that
\* ended with a thrown fetch error after fewer than 2 retries is followed by
\* the backoff delay and, when the delay is over, by the next attempt.
C2_RetryOnlyTransportFailures ==
  LET tr == call.trace
  IN  \A k \in DOMAIN tr :
        /\ tr[k].what = "response" =>
              /\ \A j \in DOMAIN tr : j > k => tr[j].what # "attempt"
              /\ call.pc \in {"body", "returned"}
        /\ (tr[k].what = "failure" /\ tr[k].ms < 2) =>
              /\ k + 1 \in DOMAIN tr /\ tr[k + 1].what = "delay"
              /\ IF k + 2 \in DOMAIN tr
                    THEN tr[k + 2] = Ev("attempt", tr[k].ms + 1, tr[k + 1].at + tr[k + 1].ms)
                    ELSE call.pc = "backoff" /\ ENABLED PollBackoffDone

C2_Witness ==
  /\ HasReturned
  /\ \E k \in DOMAIN call.trace : call.trace[k].what = "failure"
  /\ call.trace[Len(call.trace)].what = "response"
  /\ call.trace[Len(call.trace)].ms = 503

\* C3: the delay before retry n (n = 1, 2) is n x 1000 ms; it starts when
\* attempt n - 1 fails and retry n starts when it is over; the failure of the
\* third attempt is followed by no delay.
C3_BackoffSchedule ==
  LET tr == call.trace
      delays == {k \in DOMAIN tr : tr[k].what = "delay"}
  IN  /\ \A k \in delays :
            /\ k > 1 /\ tr[k - 1].what = "failure" /\ tr[k - 1].at = tr[k].at
            /\ tr[k].ms = (tr[k - 1].ms + 1) * 1000
            /\ tr[k].ms = 1000 * (Cardinality({j \in delays : j <= k}))
            /\ k + 1 \in DOMAIN tr =>
                  /\ tr[k + 1].what = "attempt"
                  /\ tr[k + 1].ms = tr[k - 1].ms + 1
                  /\ tr[k + 1].at = tr[k].at + tr[k].ms
      /\ Cardinality(delays) <= 2
      /\ \A k \in DOMAIN tr :
            (tr[k].what = "failure" /\ tr[k].ms = 2) =>
               /\ k = Len(tr)
               /\ call.pc = "returned"
               /\ now = tr[k].at
      /\ \A k \in DOMAIN tr : (tr[k].what = "attempt" /\ tr[k].ms > 0) =>
            k > 1 /\ tr[k - 1].what = "delay"

C3_Witness ==
  LET tr == call.trace
  IN  /\ HasReturned
      /\ Len(tr) = 8
      /\ tr[3].what = "delay" /\ tr[3].ms = 1000
      /\ tr[6].what = "delay" /\ tr[6].ms = 2000
      /\ tr[8].what = "failure"

\* The outcome C4 states for each failure message of Messages.
C4_Expected(m) ==
  CASE m = AbortMessage -> Outcome("down", Null, "Request timeout")
    [] m = "network timeout at: https://status.openai.com" ->
         Outcome("down", Null, "Request timeout")
    [] m = "timeout after 429" -> Outcome("down", Null, "Request timeout")
    [] m = "connect ECONNREFUSED 127.0.0.1:443" ->
         Outcome("down", Null, "Connection failed")
    [] m = "getaddrinfo ENOTFOUND status.cursor.com" ->
         Outcome("down", Null, "Connection failed")
    [] m = "Rate limited by upstream proxy" -> Outcome("degraded", Null, m)
    [] m = "proxy answered 429" -> Outcome("degraded", Null, m)
    [] OTHER -> Outcome("down", Null, m)

ExhaustedPoll ==
  /\ HasReturned
  /\ Attempts(call.trace) = 3
  /\ call.trace[Len(call.trace)].what = "failure"

\* C4: when all 3 attempts fail, the outcome has latency null and follows
\* from the failure of the last attempt: down "Request timeout" for a
\* timeout or abort, down "Connection failed" for a refused or unresolved
\* connection, otherwise the raw message with verdict down, or degraded when
\* that message indicates rate limiting.
C4_ExhaustedOutcome ==
  ExhaustedPoll =>
    /\ returned.latencyMs = Null
    /\ call.pending.kind = "error"
    /\ returned = C4_Expected(call.pending.message)

C4_Witness ==
  /\ ExhaustedPoll
  /\ call.pending.message = "proxy answered 429"
  /\ call.trace[2].what = "failure"
  /\ returned.status = "degraded"

\* The verdict and diagnostic C5 states for a 2xx response whose body parses.
C5_Expected(body, elapsed) ==
  LET ind == IF body.isNull \/ ~body.hasStatus THEN Undefined ELSE body.indicator
      desc == IF body.isNull \/ ~body.hasStatus THEN Undefined ELSE body.description
      given == desc # Undefined /\ desc # ""
  IN  CASE ind \in {"minor", "partial"} ->
             Outcome("degraded", elapsed,
                     IF given THEN desc
                     ELSE IF ind = "minor" THEN "Minor service outage"
                     ELSE "Partial outage detected")
        [] ind = "major" ->
             Outcome("down", elapsed, IF given THEN desc ELSE "Service status: major")
        [] ind = "critical" ->
             Outcome("down", elapsed, IF given THEN desc ELSE "Service status: critical")
        [] OTHER ->
             Outcome(IF elapsed <= 2000 THEN "healthy" ELSE "degraded", elapsed, Undefined)

AnsweredOk ==
  /\ HasReturned
  /\ call.pending.kind = "response"
  /\ Ok(call.pending.status)

\* C5: a 2xx response whose body parses is classified by its indicator,
\* description and elapsed time as C5_Expected says, with latency = the
\* elapsed time; a 2xx response whose body does not parse gives unknown,
\* "Failed to parse status API response" and latency = the elapsed time.
C5_Classification ==
  AnsweredOk =>
    IF call.pending.body.kind = "json"
      THEN returned = C5_Expected(call.pending.body, call.pending.elapsed)
      ELSE returned = Outcome("unknown", call.pending.elapsed,
                              "Failed to parse status API response")

\* The same with the JSON value null left out.
C5_ClassificationOfObjects ==
  (AnsweredOk /\ ~call.pending.body.isNull) => C5_Classification

(***************************************************************************)
(* Properties of the sweeps                                                *)
(***************************************************************************)
Ran == last.sweep # 0

\* C6: a poll that ended with HTTP 429 is degraded with "Rate limited - too
\* many requests", never down; one that ended with a status >= 500 is down
\* with "Server error: <status>", never degraded or healthy; one that ended
\* with 2xx, indicator none and more than 2000 ms is not down; and the record
\* the store holds after a 429 or a slow answer is not down.
C6_NoFalseOutage ==
  Ran =>
    LET t == last.terminal
        answered == t.kind = "response"
        slow == answered /\ Ok(t.status) /\ t.body.kind = "json"
                  /\ t.body.indicator = "none" /\ t.elapsed > 2000
    IN  /\ (answered /\ t.status = 429) =>
              /\ last.result = Outcome("degraded", t.elapsed, "Rate limited - too many requests")
              /\ last.written.status # "down"
        /\ (answered /\ t.status >= 500) =>
              /\ last.result.status = "down"
              /\ last.result.error = "Server error: " \o ToString(t.status)
        /\ slow =>
              /\ last.result.status = "degraded"
              /\ last.written.status # "down"
        /\ Find(tools, toolConfigs[last.i].id) = last.written

C6_Witness ==
  /\ Ran /\ last.sweep = 2 /\ last.i = 2
  /\ last.terminal.kind = "response" /\ last.terminal.status = 429
  /\ last.before = "degraded"
  /\ Find(tools, "claude").status = "degraded"

InFlight(s) == sweeps[s].pc = "poll" /\ sweeps[s].poll.pc \in {"fetch", "body"}

\* C7: at most one sweep is active and at most one probe is in flight.
C7_OneSweepAtATime ==
  /\ Cardinality({s \in Sweeps : Active(s)}) <= 1
  /\ Cardinality({s \in Sweeps : InFlight(s)}) <= 1

\* C8: every sweep that has started ends, having written a record for every
\* target.  A sweep awaits at most 3 fetches, 1 body and 2 backoff delays for
\* each of the 3 targets and 2 pacing delays, so it ends unless it waits for a
\* promise that never settles: a sweep that has not ended waits for one that
\* does, and a sweep that has ended has run the loop body for every target.
C8_EverySweepEnds ==
  \A s \in Sweeps :
    /\ Active(s) => Runnable(s)
    /\ (sweeps[s].pc = "done" /\ sweeps[s].polled # << >>) =>
          Len(sweeps[s].polled) = Len(toolConfigs)

\* The sweep s has ended, and no other sweep has run while it ran or since.
RanAlone(s) ==
  /\ sweeps[s].pc = "done" /\ sweeps[s].polled # << >>
  /\ ~sweeps[s].overlapped

\* C9: when the loop body of one target throws, the sweep still goes through
\* every target; it leaves the record of that target with verdict unknown and
\* the failure message, and the record of every other target as its own poll
\* resolved it.
C9_ThrowIsContained ==
  \A s \in Sweeps :
    (sweeps[s].pc = "done" /\ sweeps[s].polled # << >>) =>
      /\ Len(sweeps[s].polled) = Len(toolConfigs)
      /\ \A k \in DOMAIN toolConfigs :
           LET p == sweeps[s].polled[k]
           IN  /\ p.result.status \in Verdicts
               /\ p.written.id = toolConfigs[k].id
               /\ IF p.threw
                    THEN /\ p.written.status = "unknown"
                         /\ p.written.error \in {"telemetry unavailable", "Unknown error"}
                    ELSE p.written = ToolStatus(toolConfigs[k], p.result.status,
                                                p.result.latencyMs, p.result.error)
               /\ RanAlone(s) => Find(tools, toolConfigs[k].id) = p.written

C9_Witness ==
  /\ RanAlone(1)
  /\ ~sweeps[1].polled[1].threw /\ sweeps[1].polled[1].written.status = "healthy"
  /\ sweeps[1].polled[2].threw /\ tools[2].status = "unknown"
  /\ tools[2].error = "telemetry unavailable"
  /\ ~sweeps[1].polled[3].threw /\ tools[3].status = "down"

Emitted(fn) == \E k \in DOMAIN last.emitted : last.emitted[k].fn = fn

\* C10: a poll whose verdict equals the verdict the record held before the
\* poll produces no error log line and no error report for the target.
C10_NoEventWhenUnchanged ==
  (Ran /\ last.result.status = last.oldStatus /\ last.result.status = last.before) =>
    /\ ~Emitted("console.error")
    /\ ~Emitted("noticeError")

\* The severity C11 states for a transition to each verdict.
C11_Severity(status) ==
  CASE status = "down" -> "error"
    [] status = "degraded" -> "warn"
    [] OTHER -> "info"

\* C11: a poll whose verdict differs from the verdict the store held for the
\* target produces a transition event for the target and the new verdict,
\* with severity error for down, warn for degraded and info otherwise.
C11_TransitionEvent ==
  (Ran /\ last.result.status # last.before) =>
    \E k \in DOMAIN last.emitted :
      /\ last.emitted[k].toolId = toolConfigs[last.i].id
      /\ last.emitted[k].status = last.result.status
      /\ Level(last.emitted[k].fn) = C11_Severity(last.result.status)

\* C12: a poll that takes a target from a verdict other than down to down
\* produces an incident report (noticeError) for the target that carries the
\* verdict the store held immediately before the update and the diagnostic
\* text.  Stated for the polls whose telemetry calls all return.
C12_IncidentReport ==
  (Ran /\ ~last.threw /\ last.before # "down" /\ last.result.status = "down") =>
    \E k \in DOMAIN last.emitted :
      /\ last.emitted[k].fn = "noticeError"
      /\ last.emitted[k].toolId = toolConfigs[last.i].id
      /\ last.emitted[k].previousStatus = last.before
      /\ last.emitted[k].error = last.result.error

\* The first loop body of the startup sweep has not run yet.
BeforeFirstWrite ==
  started = 1 /\ sweeps[1].pc = "poll" /\ sweeps[1].i = 1 /\ sweeps[1].polled = << >>

\* C13: the store holds exactly one record for each target of toolConfigs
\* and no other record, in every state; before the first write of the
\* startup sweep every record has verdict unknown and latency null.
C13_OneRecordPerTarget ==
  /\ Len(tools) = Len(toolConfigs)
  /\ \A k \in DOMAIN toolConfigs :
        /\ Cardinality({j \in DOMAIN tools : tools[j].id = toolConfigs[k].id}) = 1
        /\ Find(tools, toolConfigs[k].id).name = toolConfigs[k].name
  /\ \A j \in DOMAIN tools : \E k \in DOMAIN toolConfigs : tools[j].id = toolConfigs[k].id
  /\ BeforeFirstWrite =>
        \A j \in DOMAIN tools : tools[j].status = "unknown" /\ tools[j].latencyMs = Null

\* Two sweeps have written every record, one of them through the catch block.
C13_Witness ==
  /\ sweeps[1].pc = "done" /\ sweeps[2].pc = "done"
  /\ throws = 1
  /\ \A j \in DOMAIN tools : tools[j].status # "unknown" \/ tools[j].error # Undefined
  /\ \E j \in DOMAIN tools : tools[j].error = "telemetry unavailable"

\* C14: in every sweep the first probe of a target other than the first
\* starts when a pacing delay of 2000 ms, begun when the processing of the
\* target before it ended, is over, whether or not that processing threw;
\* the sweep ends with the processing of the last target, without a delay.
C14_PacingBetweenTargets ==
  [][\A s \in Sweeps :
       LET a == sweeps[s]
           b == sweeps'[s]
       IN  /\ (a.pc # "pacing" /\ b.pc = "pacing") =>
                 /\ b.due = now' + CHECK_DELAY_MS
                 /\ b.i < Len(toolConfigs)
           /\ (b.pc = "poll" /\ b.i > 1 /\ b.i # a.i) =>
                 /\ a.pc = "pacing" /\ a.i = b.i - 1
                 /\ now' = a.due
                 /\ b.poll.trace = << Ev("attempt", 0, a.due) >>
           /\ (a.pc # "done" /\ b.pc = "done") =>
                 a.pc = "poll" /\ a.i = Len(toolConfigs)]_vars

\* C15: every attempt of checkToolStatus ends no later than
\* REQUEST_TIMEOUT_MS after it started, also when the endpoint never finishes
\* its headers or its body: what the attempt awaits settles by then, and an
\* attempt whose timer expired has failed with "Request timeout".
C15_AttemptEndsWithinTimeout ==
  /\ call.pc \in {"fetch", "body"} =>
        /\ Settles(call)
        /\ call.due <= call.startTime + REQUEST_TIMEOUT_MS
  /\ (call.pc \in {"backoff", "returned"} /\ now - call.startTime >= REQUEST_TIMEOUT_MS) =>
        /\ call.pending.kind = "error"
        /\ ClassifyError(call.pending.message) = "Request timeout"

\* C16: every outcome checkToolStatus returns with a verdict other than
\* healthy carries a diagnostic message.
C16_DiagnosticUnlessHealthy ==
  (HasReturned /\ returned.status # "healthy") => Truthy(returned.error)

\* The latest poll was answered at its first probe with HTTP 200, indicator
\* none, after 500 ms, and so were the polls of the target before it, as far
\* as the store tells: from the second sweep on it held healthy.
AlwaysOperational ==
  /\ Ran
  /\ last.terminal = Operational(500, 0) /\ last.attempts = 1
  /\ last.sweep > 1 => last.before = "healthy"

\* C17: a target whose endpoint answers every probe with HTTP 200,
\* indicator none, after 500 ms is healthy in the store after every sweep,
\* and no sweep after the first writes a transition log line or reports an
\* incident for it.
C17_HealthyEverySweep ==
  AlwaysOperational =>
    /\ last.result = Outcome("healthy", 500, Undefined)
    /\ last.written.status = "healthy"
    /\ Find(tools, toolConfigs[last.i].id).status = "healthy"
    /\ last.sweep > 1 =>
          \A k \in DOMAIN last.emitted :
            Level(last.emitted[k].fn) = Undefined /\ last.emitted[k].fn # "noticeError"

(***************************************************************************)
(* Properties of the query surface                                         *)
(***************************************************************************)
Configured(id) == \E k \in DOMAIN toolConfigs : toolConfigs[k].id = id

C19_SweepDuration ==
  \A s \in Sweeps :
    Active(s) =>
      /\ Runnable(s)
      /\ Due(s) - StartedAt(s) <= Len(toolConfigs) * (REQUEST_TIMEOUT_MS + CHECK_DELAY_MS)
      /\ Due(s) - StartedAt(s) < CHECK_INTERVAL_MS

\* The ids in the order every sweep is to visit them.
C20_Order == << "chatgpt", "claude", "cursor" >>

\* C20: every sweep visits chatgpt, claude, cursor in this order, and when
\* the first probe of a target starts the poll of every target before it has
\* resolved and its record has been written to the store.
C20_FixedOrder ==
  \A s \in Sweeps :
    LET sw == sweeps[s]
        n == IF sw.pc = "poll" THEN sw.i - 1 ELSE sw.i
    IN  /\ Active(s) =>
              /\ sw.i \in DOMAIN C20_Order
              /\ Len(sw.polled) = n
              /\ \A k \in 1..n :
                    /\ sw.polled[k].result.status \in Verdicts
                    /\ sw.polled[k].written.id = C20_Order[k]
                    /\ ~sw.overlapped => tools[k] = sw.polled[k].written
              /\ sw.pc = "poll" =>
                    /\ sw.poll.config.id = C20_Order[sw.i]
                    /\ sw.poll.trace[1].what = "attempt"
                    /\ sw.existingTool.id = C20_Order[sw.i]
        /\ (sw.pc = "done" /\ sw.polled # << >>) =>
              [k \in DOMAIN sw.polled |-> sw.polled[k].written.id] = C20_Order

\* The second sweep probes cursor, having polled chatgpt and claude and
\* written their records.
C20_Witness ==
  /\ sweeps[2].pc = "poll" /\ sweeps[2].i = 3 /\ sweeps[2].poll.pc = "backoff"
  /\ ~sweeps[2].overlapped
  /\ tools[1].status = "healthy" /\ tools[2].status = "degraded"
  /\ Len(sweeps[2].polled) = 2

\* Sweep s awaits its poll of the same target before and after the step.
StillPolling(s) ==
  /\ sweeps[s].pc = "poll" /\ sweeps'[s].pc = "poll"
  /\ sweeps'[s].i = sweeps[s].i

\* C21: while a poll of a target is in progress (its attempts and its
\* backoff delays) the record of the target does not change, and a record
\* changes only in the step in which a poll of its target has resolved with
\* its outcome.
C21_RecordStableDuringPoll ==
  [][/\ \A s \in Sweeps :
          StillPolling(s) => tools'[sweeps[s].i] = tools[sweeps[s].i]
     /\ \A k \in DOMAIN tools :
          tools'[k] # tools[k] =>
            /\ last'.sweep # 0 /\ last'.i = k
            /\ last'.result.status \in Verdicts
            /\ sweeps[last'.sweep].pc = "poll" /\ sweeps[last'.sweep].i = k]_vars

\* C22: the loop body of a target assigns the record of the target exactly
\* once, on every path, the one where a telemetry call throws after the
\* store update included (each sweep runs the loop body of a target once).
C22_WrittenOncePerSweep ==
  Ran => Len(last.writes) = 1

\* The last event of the trace of the poll, and the start of its last attempt.
LastEvent(tr) == tr[Len(tr)]
LastAttemptAt(tr) ==
  tr[CHOOSE k \in DOMAIN tr :
       /\ tr[k].what = "attempt"
       /\ \A j \in DOMAIN tr : tr[j].what = "attempt" => j <= k].at

\* C23: the latency of a returned outcome is null exactly when the last
\* attempt of the poll ended with a transport failure; when it ended with an
\* HTTP response, whatever its status or body, the latency is the time from
\* the start of that attempt to the arrival of the response.
C23_LatencyNullIffNoResponse ==
  HasReturned =>
    /\ LastEvent(call.trace).what \in {"response", "failure"}
    /\ returned.latencyMs = Null <=> LastEvent(call.trace).what = "failure"
    /\ LastEvent(call.trace).what = "failure" =>
          /\ LastEvent(call.trace).ms = MAX_RETRIES
          /\ call.pending.kind = "error"
    /\ LastEvent(call.trace).what = "response" =>
          /\ call.pending.kind = "response"
          /\ returned.latencyMs = call.pending.elapsed
          /\ returned.latencyMs = LastEvent(call.trace).at - LastAttemptAt(call.trace)

\* The third attempt is answered after 2500 ms with a body that does not
\* parse: the latency is that of the third attempt, not the time since the
\* poll began.
C23_Witness ==
  /\ HasReturned /\ Attempts(call.trace) = 3
  /\ LastEvent(call.trace).what = "response"
  /\ returned.status = "unknown"
  /\ returned.latencyMs = 2500 /\ now > 2500

\* C24: in every state of the store a record whose verdict is healthy has a
\* latency that is not null and is at most 2000 ms, and no diagnostic
\* message; a record rewritten by the catch block is not healthy.
C24_HealthyRecordShape ==
  /\ \A j \in DOMAIN tools :
        tools[j].status = "healthy" =>
          /\ tools[j].latencyMs # Null
          /\ tools[j].latencyMs >= 0 /\ tools[j].latencyMs <= 2000
          /\ tools[j].error = Undefined
  /\ (Ran /\ last.threw) => tools[last.i].status # "healthy"

\* The catch block has just rewritten the record of a target whose poll
\* returned healthy, while the store holds a healthy record of another.
C24_Witness ==
  /\ Ran /\ last.threw /\ last.result.status = "healthy"
  /\ tools[last.i].status = "unknown" /\ tools[last.i].latencyMs = 500
  /\ \E j \in DOMAIN tools : j # last.i /\ tools[j].status = "healthy"

\* The functions the latest run has called for the k-th tool.
SimCallsFor(log, k) ==
  IF k \in DOMAIN log THEN {log[k][j].fn : j \in DOMAIN log[k]} ELSE {}

SimHasRun == simLog # << >>

\* C25: in the simulator the store always holds the five initial ids in
\* the initial order; once randomizeStatuses has run no record is unknown
\* and a record has a null latency exactly when it is down; and a run
\* writes a status-change log line or reports a ToolDown error only for a
\* tool whose status it changed.
C25_SimulatorRuns ==
  /\ [](/\ Len(simTools) = Len(SimInitialTools)
        /\ \A k \in DOMAIN simTools :
              /\ simTools[k].id = SimInitialTools[k].id
              /\ simTools[k].name = SimInitialTools[k].name
              /\ SimHasRun =>
                    /\ simTools[k].status \in {"healthy", "degraded", "down"}
                    /\ simTools[k].latencyMs = Null <=> simTools[k].status = "down"
                    /\ simTools[k].latencyMs # Null => simTools[k].latencyMs >= 100
                    /\ \A j \in DOMAIN simLog[k] : simLog[k][j].toolId = simTools[k].id)
  /\ [][\A k \in DOMAIN simTools :
          /\ "recordCustomEvent" \in SimCallsFor(simLog', k)
          /\ SimCallsFor(simLog', k) # {"recordCustomEvent"} =>
                simTools'[k].status # simTools[k].status
          /\ "noticeError" \in SimCallsFor(simLog', k) =>
                simTools'[k].status = "down"]_vars

\* A run has put copilot down, which was not down, and reported it, and
\* has left cursor healthy without a log line or a report.
C25_Witness ==
  /\ SimHasRun
  /\ simTools[5].id = "copilot"
  /\ simTools[5].status = "down" /\ simTools[5].latencyMs = Null
  /\ "noticeError" \in SimCallsFor(simLog, 5)
  /\ simTools[1].id = "cursor" /\ simTools[1].status = "healthy"
  /\ SimCallsFor(simLog, 1) = {"recordCustomEvent"}
====
